---- MODULE Spec2Model ----
(***************************************************************************)
(* gh-pr-comments (src/src/main.rs): resolution of a pull-request          *)
(* reference from the command line (parse_input and its helpers) and the   *)
(* fetch-and-print pipeline of main.                                       *)
(*                                                                         *)
(* Strings are sequences of one-character strings.  The alphabet of the    *)
(* inputs is: lowercase letters, decimal digits and  / : . + - _ ? # \ @   *)
(* ('@' only in remote URLs).  A u32 is kept as two 16-bit limbs           *)
(* <<hi, lo>>, its value being hi * 65536 + lo.                            *)
(***************************************************************************)
EXTENDS Integers, Sequences, FiniteSets, TLC

VARIABLES pc,                \* position in main
          pr_input,          \* positional argument "pr"
          repo_input,        \* --repo: None or a string
          include_resolved,  \* --include-resolved
          ambient,           \* state of the working directory's git repository
          result,            \* what parse_input returned
          lookups,           \* number of reads of the git repository
          requests,          \* number of HTTP requests sent
          pr,                \* decoded PullRequest
          comments,          \* decoded Vec<Comment>
          todo,              \* filtered_comments not yet printed
          stdout,            \* lines printed
          failure            \* why main returned Err ("" otherwise)

vars == <<pc, pr_input, repo_input, include_resolved, ambient, result, lookups,
          requests, pr, comments, todo, stdout, failure>>

(***************************************************************************)
(* Characters and strings                                                  *)
(***************************************************************************)
DigitSeq == <<"0", "1", "2", "3", "4", "5", "6", "7", "8", "9">>

Digit == {DigitSeq[i] : i \in 1..10}

Lower == {"a", "b", "c", "d", "e", "f", "g", "h", "i", "j", "k", "l", "m",
          "n", "o", "p", "q", "r", "s", "t", "u", "v", "w", "x", "y", "z"}

\* char::to_digit(10) of a decimal digit
DigitVal(c) == (CHOOSE i \in 1..10 : DigitSeq[i] = c) - 1

\* str::contains(char)
contains(s, c) == \E i \in 1..Len(s) : s[i] = c

\* index of the first occurrence of a character of set cs in s, Len(s)+1 if none
FirstOf(s, cs) ==
    IF \E i \in 1..Len(s) : s[i] \in cs
    THEN CHOOSE i \in 1..Len(s) : s[i] \in cs /\ \A j \in 1..(i - 1) : s[j] \notin cs
    ELSE Len(s) + 1

\* str::split(char).collect(): n separators give n + 1 parts, "" gives [""]
RECURSIVE split(_, _)
split(s, sep) ==
    LET k == FirstOf(s, {sep})
    IN  IF k > Len(s) THEN <<s>>
        ELSE <<SubSeq(s, 1, k - 1)>> \o split(SubSeq(s, k + 1, Len(s)), sep)

RECURSIVE Join(_, _)
Join(segs, sep) ==
    IF Len(segs) = 0 THEN <<>>
    ELSE IF Len(segs) = 1 THEN segs[1]
    ELSE segs[1] \o <<sep>> \o Join(Tail(segs), sep)

\* whether string t occurs in s at position i
MatchAt(s, i, t) ==
    /\ i >= 1
    /\ i + Len(t) - 1 <= Len(s)
    /\ \A j \in 1..Len(t) : s[i + j - 1] = t[j]

EndsWith(s, t) == MatchAt(s, Len(s) - Len(t) + 1, t)

(***************************************************************************)
(* u32 and str::parse::<u32>()                                             *)
(***************************************************************************)
LimbBase == 65536

\* one step of the parsing loop: checked_mul(10) then checked_add(digit)
U32Step(acc, d) ==
    LET lo10 == acc.val[2] * 10 + d
        hi10 == acc.val[1] * 10 + (lo10 \div LimbBase)
    IN  IF ~acc.ok \/ hi10 >= LimbBase
        THEN [ok |-> FALSE, val |-> <<0, 0>>]
        ELSE [ok |-> TRUE, val |-> <<hi10, lo10 % LimbBase>>]

RECURSIVE U32Digits(_, _)
U32Digits(acc, s) ==
    IF Len(s) = 0 THEN acc
    ELSE IF Head(s) \notin Digit THEN [ok |-> FALSE, val |-> <<0, 0>>]
    ELSE U32Digits(U32Step(acc, DigitVal(Head(s))), Tail(s))

\* <u32 as FromStr>::from_str: an optional leading '+', then one or more
\* decimal digits, the value at most 2^32 - 1
parse_u32(s) ==
    LET digits == IF Len(s) > 0 /\ s[1] = "+" THEN Tail(s) ELSE s
    IN  IF Len(digits) = 0 THEN [ok |-> FALSE, val |-> <<0, 0>>]
        ELSE U32Digits([ok |-> TRUE, val |-> <<0, 0>>], digits)

(***************************************************************************)
(* Literals                                                                *)
(***************************************************************************)
S_http == <<"h", "t", "t", "p">>

S_https == <<"h", "t", "t", "p", "s">>

S_ws == <<"w", "s">>

S_wss == <<"w", "s", "s">>

S_ftp == <<"f", "t", "p">>

S_pull == <<"p", "u", "l", "l">>

S_dot_git == <<".", "g", "i", "t">>

S_github_com == <<"g", "i", "t", "h", "u", "b", ".", "c", "o", "m">>

S_dot == <<".">>

S_dotdot == <<".", ".">>

(***************************************************************************)
(* Url::parse (crate url), as far as url.path() depends on it.  Not        *)
(* covered: file: URLs, userinfo, IPv6 and numeric (IPv4) hosts other      *)
(* than a plain decimal number, percent-encoding (no character of the      *)
(* alphabet is percent-encoded in a path).                                 *)
(***************************************************************************)
UrlErr == [ok |-> FALSE, path |-> <<>>]

UrlOk(p) == [ok |-> TRUE, path |-> p]

SpecialSchemes == {S_http, S_https, S_ws, S_wss, S_ftp}

\* index of the ':' that ends a scheme (ALPHA *( ALPHA / DIGIT / + / - / . )),
\* 0 when the input starts with no scheme (ParseError::RelativeUrlWithoutBase)
SchemeEnd(s) ==
    LET k == FirstOf(s, {":"})
    IN  IF /\ Len(s) > 0
           /\ s[1] \in Lower
           /\ k <= Len(s)
           /\ \A j \in 2..(k - 1) : s[j] \in Lower \cup Digit \cup {"+", "-", "."}
        THEN k
        ELSE 0

\* path segments with "." dropped and ".." removing the segment before it; a
\* trailing "." or ".." leaves an empty last segment
RECURSIVE DotSegments(_, _)
DotSegments(segs, acc) ==
    IF Len(segs) = 0 THEN acc
    ELSE LET seg  == Head(segs)
             kept == IF seg = S_dotdot
                     THEN SubSeq(acc, 1, Len(acc) - 1)
                     ELSE IF seg = S_dot THEN acc ELSE Append(acc, seg)
             next == IF seg \in {S_dot, S_dotdot} /\ Len(segs) = 1
                     THEN Append(kept, <<>>)
                     ELSE kept
         IN  DotSegments(Tail(segs), next)

\* Parser::parse_path on the input after the path's leading '/': the path ends
\* at '?' or '#'; in a special URL '\' separates segments like '/'
url_parse_path(input, special) ==
    LET cut  == FirstOf(input, {"?", "#"})
        raw  == SubSeq(input, 1, cut - 1)
        p    == [i \in 1..Len(raw) |->
                    IF special /\ raw[i] = "\\" THEN "/" ELSE raw[i]]
    IN  <<"/">> \o Join(DotSegments(split(p, "/"), <<>>), "/")

\* a port is decimal digits with a value of at most 65535
PortOk(p) ==
    LET v == U32Digits([ok |-> TRUE, val |-> <<0, 0>>], p)
    IN  v.ok /\ v.val[1] = 0

\* Parser::after_double_slash: host[:port], then the path
url_after_double_slash(input, special) ==
    LET stop  == FirstOf(input, {"/", "?", "#"} \cup (IF special THEN {"\\"} ELSE {}))
        auth  == SubSeq(input, 1, stop - 1)
        colon == FirstOf(auth, {":"})
        host  == SubSeq(auth, 1, colon - 1)
        port  == SubSeq(auth, colon + 1, Len(auth))
        rem   == SubSeq(input, stop, Len(input))
    IN  IF special /\ Len(host) = 0 THEN UrlErr            \* EmptyHost
        ELSE IF ~PortOk(port) THEN UrlErr                  \* InvalidPort
        ELSE IF Len(rem) > 0 /\ (rem[1] = "/" \/ (special /\ rem[1] = "\\"))
        THEN UrlOk(url_parse_path(Tail(rem), special))
        ELSE UrlOk(IF special THEN <<"/">> ELSE <<>>)

\* number of leading '/' and '\' of s
LeadingSlashes(s) == FirstOf(s, {s[i] : i \in 1..Len(s)} \ {"/", "\\"}) - 1

\* Url::parse(input), reduced to Result<path>
Url_parse(s) ==
    LET k      == SchemeEnd(s)
        scheme == SubSeq(s, 1, k - 1)
        rest   == SubSeq(s, k + 1, Len(s))
    IN  IF k = 0 THEN UrlErr
        ELSE IF scheme \in SpecialSchemes
        THEN url_after_double_slash(
                 SubSeq(rest, LeadingSlashes(rest) + 1, Len(rest)), TRUE)
        ELSE IF MatchAt(rest, 1, <<"/", "/">>)
        THEN url_after_double_slash(SubSeq(rest, 3, Len(rest)), FALSE)
        ELSE IF MatchAt(rest, 1, <<"/">>)
        THEN UrlOk(url_parse_path(Tail(rest), FALSE))
        ELSE UrlOk(SubSeq(rest, 1, FirstOf(rest, {"?", "#"}) - 1))

(***************************************************************************)
(* Results of the resolver.  The error kinds name the anyhow errors:       *)
(*   InvalidPullRequestUrl        "Invalid GitHub PR URL format"           *)
(*   MissingPrNumber              "PR number not specified"                *)
(*   InvalidNumber                ParseIntError of parse::<u32>()          *)
(*   InvalidRepoHint              "Invalid repo format. Expected ..."      *)
(*   NoRepositoryContext          git2 error / "No URL for origin remote"  *)
(*   UnsupportedRemoteHost        "Could not parse GitHub repo from ..."   *)
(*   UnrecognizedReferenceFormat  "Could not parse PR input: ..."          *)
(***************************************************************************)
None == [some |-> FALSE]

Some(v) == [some |-> TRUE, val |-> v]

Err(kind) == [ok |-> FALSE, err |-> kind]

OkRef(owner, name, number) ==
    [ok |-> TRUE, owner |-> owner, name |-> name, number |-> number]

OkRepo(owner, name) == [ok |-> TRUE, owner |-> owner, name |-> name]

\* the longest prefix of s made of digits: what (\d+) captures, being greedy
DigitPrefix(s) == SubSeq(s, 1, FirstOf(s, {s[i] : i \in 1..Len(s)} \ Digit) - 1)

\* parse_github_url with the two captures of the name taken from the same group
parse_github_url_same_capture(url) ==
    LET path == url.path
        segs == IF Len(path) > 0 /\ path[1] = "/" THEN split(Tail(path), "/") ELSE <<>>
    IN  IF /\ Len(segs) >= 4
           /\ Len(segs[1]) > 0
           /\ Len(segs[2]) > 0
           /\ segs[3] = S_pull
           /\ Len(DigitPrefix(segs[4])) > 0
        THEN LET n == parse_u32(DigitPrefix(segs[4]))
             IN  IF n.ok THEN OkRef(segs[1], segs[1], n.val)
                 ELSE Err("InvalidNumber")
        ELSE Err("InvalidPullRequestUrl")

\* parse_github_url: Regex ^/([^/]+)/([^/]+)/pull/(\d+) on url.path(), which is
\* anchored at the start only
parse_github_url(url) ==
    LET path == url.path
        segs == IF Len(path) > 0 /\ path[1] = "/" THEN split(Tail(path), "/") ELSE <<>>
    IN  IF /\ Len(segs) >= 4
           /\ Len(segs[1]) > 0
           /\ Len(segs[2]) > 0
           /\ segs[3] = S_pull
           /\ Len(DigitPrefix(segs[4])) > 0
        THEN LET n == parse_u32(DigitPrefix(segs[4]))
             IN  IF n.ok THEN OkRef(segs[1], segs[2], n.val)
                 ELSE Err("InvalidNumber")
        ELSE Err("InvalidPullRequestUrl")

\* parse_repo_string
parse_repo_string(repo) ==
    LET parts == split(repo, "/")
    IN  IF Len(parts) = 2 THEN OkRepo(parts[1], parts[2])
        ELSE Err("InvalidRepoHint")

\* Regex github\.com[:/]([^/]+)/([^/]+?)(?:\.git)?$ tried at position i of url:
\* after the separator there is exactly one '/', between two non-empty parts
GithubMatchAt(url, i) ==
    /\ MatchAt(url, i, S_github_com)
    /\ i + 10 <= Len(url)
    /\ url[i + 10] \in {":", "/"}
    /\ LET parts == split(SubSeq(url, i + 11, Len(url)), "/")
       IN  Len(parts) = 2 /\ Len(parts[1]) > 0 /\ Len(parts[2]) > 0

\* detect_repo_from_git with a greedy name, which keeps a trailing ".git"
detect_repo_from_git_greedy(env) ==
    IF env.kind # "url" THEN Err("NoRepositoryContext")
    ELSE LET url == env.url
         IN  IF \E i \in 1..Len(url) : GithubMatchAt(url, i)
             THEN LET i     == CHOOSE i \in 1..Len(url) :
                                   /\ GithubMatchAt(url, i)
                                   /\ \A j \in 1..(i - 1) : ~GithubMatchAt(url, j)
                      parts == split(SubSeq(url, i + 11, Len(url)), "/")
                  IN  OkRepo(parts[1], parts[2])
             ELSE Err("UnsupportedRemoteHost")

\* detect_repo_from_git: the git repository and its remote "origin" are the
\* environment `env`; the regex search returns the leftmost match, and the lazy
\* name gives a trailing ".git" to the optional group when something is left
detect_repo_from_git(env) ==
    IF env.kind # "url" THEN Err("NoRepositoryContext")
    ELSE LET url == env.url
         IN  IF \E i \in 1..Len(url) : GithubMatchAt(url, i)
             THEN LET i     == CHOOSE i \in 1..Len(url) :
                                   /\ GithubMatchAt(url, i)
                                   /\ \A j \in 1..(i - 1) : ~GithubMatchAt(url, j)
                      parts == split(SubSeq(url, i + 11, Len(url)), "/")
                      tail  == parts[2]
                      name  == IF EndsWith(tail, S_dot_git) /\ Len(tail) > 4
                               THEN SubSeq(tail, 1, Len(tail) - 4)
                               ELSE tail
                  IN  OkRepo(parts[1], name)
             ELSE Err("UnsupportedRemoteHost")

\* parse_slash_path taking four segments or more
parse_slash_path_four_or_more(input) ==
    LET parts == split(input, "/")
    IN  IF contains(input, "/") /\ Len(parts) >= 2 /\ Len(parts) = 2
        THEN [matched |-> TRUE, res |-> Err("MissingPrNumber")]
        ELSE IF contains(input, "/") /\ Len(parts) >= 2
                /\ Len(parts) >= 4 /\ parts[3] = S_pull
        THEN LET n == parse_u32(parts[4])
             IN  [matched |-> TRUE,
                  res |-> IF n.ok THEN OkRef(parts[1], parts[2], n.val)
                          ELSE Err("InvalidNumber")]
        ELSE [matched |-> FALSE, res |-> Err("")]

\* parse_input, lines 146-161: the owner/repo/pull/number form.  `matched` is
\* FALSE where the code falls out of the block and goes on to line 163
parse_slash_path(input) ==
    LET parts == split(input, "/")
    IN  IF contains(input, "/") /\ Len(parts) >= 2 /\ Len(parts) = 2
        THEN [matched |-> TRUE, res |-> Err("MissingPrNumber")]
        ELSE IF contains(input, "/") /\ Len(parts) >= 2
                /\ Len(parts) = 4 /\ parts[3] = S_pull
        THEN LET n == parse_u32(parts[4])
             IN  [matched |-> TRUE,
                  res |-> IF n.ok THEN OkRef(parts[1], parts[2], n.val)
                          ELSE Err("InvalidNumber")]
        ELSE [matched |-> FALSE, res |-> Err("")]

\* parse_bare_number turning to the git remote when --repo does not parse
parse_bare_number_hint_fallback(input, repo, env) ==
    LET num == parse_u32(input)
        hint == IF repo.some THEN parse_repo_string(repo.val) ELSE Err("")
    IN  IF num.ok
        THEN IF hint.ok
             THEN [res |-> OkRef(hint.owner, hint.name, num.val), lookups |-> 0]
             ELSE LET r == detect_repo_from_git(env)
                  IN  [res |-> IF r.ok THEN OkRef(r.owner, r.name, num.val) ELSE r,
                       lookups |-> 1]
        ELSE [res |-> Err("UnrecognizedReferenceFormat"), lookups |-> 0]

\* parse_input, lines 163-175: the bare number, with --repo or with the git
\* remote.  `lookups` counts the calls of detect_repo_from_git
parse_bare_number(input, repo, env) ==
    LET num == parse_u32(input)
    IN  IF num.ok
        THEN IF repo.some
             THEN LET r == parse_repo_string(repo.val)
                  IN  [res |-> IF r.ok THEN OkRef(r.owner, r.name, num.val) ELSE r,
                       lookups |-> 0]
             ELSE LET r == detect_repo_from_git(env)
                  IN  [res |-> IF r.ok THEN OkRef(r.owner, r.name, num.val) ELSE r,
                       lookups |-> 1]
        ELSE [res |-> Err("UnrecognizedReferenceFormat"), lookups |-> 0]

\* parse_input going on to the next shape when the URL does not name a pull
\* request
parse_input_url_falls_through(input, repo, env) ==
    LET url   == Url_parse(input)
        slash == parse_slash_path(input)
    IN  IF url.ok /\ parse_github_url(url).ok
        THEN [res |-> parse_github_url(url), lookups |-> 0]
        ELSE IF slash.matched THEN [res |-> slash.res, lookups |-> 0]
        ELSE parse_bare_number(input, repo, env)

\* parse_input
parse_input(input, repo, env) ==
    LET url   == Url_parse(input)
        slash == parse_slash_path(input)
    IN  IF url.ok THEN [res |-> parse_github_url(url), lookups |-> 0]
        ELSE IF slash.matched THEN [res |-> slash.res, lookups |-> 0]
        ELSE parse_bare_number(input, repo, env)

(***************************************************************************)
(* Inputs: command lines and environments                                  *)
(***************************************************************************)
MaxSegs == 4

MaxComments == 2

\* all sequences over S of length 1..n
SeqsUpTo(S, n) == UNION {[1..k -> S] : k \in 1..n}

Segs == {<<>>, <<"o">>, S_pull, <<"7">>}

\* a/b/... for every choice of at most MaxSegs segments
SlashPaths == {Join(p, "/") : p \in SeqsUpTo(Segs, MaxSegs)}

Prefixes == {<<>>,
             S_https \o <<":", "/", "/", "h", "/">>,
             S_https \o <<":">>,
             <<"x", ":">>,
             <<"x", ":", "/">>}

S_max_u32 == <<"4", "2", "9", "4", "9", "6", "7", "2", "9", "5">>

S_2_pow_32 == <<"4", "2", "9", "4", "9", "6", "7", "2", "9", "6">>

DigitStrs == {<<"0">>, <<"7">>, <<"0", "0", "7">>, <<"6", "5", "5", "3", "6">>,
              S_max_u32, S_2_pow_32}

NumStrs == DigitStrs \cup {<<>>, <<"+", "7">>, <<"-", "7">>, <<"7", "x">>, <<"x">>,
                           <<"+">>}

Hosts == {<<"h">>, <<"h", ".", "i", "o">>, <<"h", ":", "8">>}

Names == {<<"o">>, <<"r", "-", "s">>, S_dotdot, S_dot, <<"a", "?", "b">>,
          <<"a", "\\", "b">>, <<"a", "#">>, S_pull}

\* https://<host>/<owner>/<repo>/pull/<n>
PullUrl(host, owner, repo, n) ==
    S_https \o <<":", "/", "/">> \o host \o <<"/">> \o owner \o <<"/">> \o repo
        \o <<"/">> \o S_pull \o <<"/">> \o n

OR_pull == <<"o", "/", "r", "/">> \o S_pull \o <<"/">>

\* the prefixes put before every slash path: none, and a URL's scheme and host
WidePrefixes == {<<>>, S_https \o <<":", "/", "/", "h", "/">>}

Tokens ==
    {pre \o p : pre \in WidePrefixes, p \in SlashPaths}
        \cup NumStrs
        \cup {pre \o OR_pull \o n \o t :
                  pre \in Prefixes, n \in NumStrs, t \in {<<>>, <<"/">>, <<"/", "o">>}}
        \cup {PullUrl(h, o, r, n) : h \in Hosts, o \in Names, r \in Names, n \in DigitStrs}

Hints == {None, Some(<<"o", "/", "r">>), Some(<<"x">>), Some(<<>>), Some(<<"/">>),
          Some(<<"o", "/">>), Some(<<"/", "r">>), Some(<<"o", "/", "r", "/", "x">>)}

S_gitlab_com == <<"g", "i", "t", "l", "a", "b", ".", "c", "o", "m">>

S_githubxcom == <<"g", "i", "t", "h", "u", "b", "x", "c", "o", "m">>

RemotePrefixes == {<<"g", "i", "t", "@">>, S_https \o <<":", "/", "/">>}

RemoteDomains == {S_github_com, S_gitlab_com, S_githubxcom}

RemoteOwners == {<<"o">>, <<>>, <<"a", ":", "b">>}

RemoteRepos == {<<"r">>, <<"r", ".", "g", "i", "t">>, <<>>, <<"r", "/", "x">>}

RemoteSuffixes == {<<>>, S_dot_git, <<"/">>}

RemoteUrl(pre, dom, sep, owner, repo, suffix) ==
    pre \o dom \o <<sep>> \o owner \o <<"/">> \o repo \o suffix

\* what Repository::open("."), find_remote("origin") and remote.url() find
Remote(url) == [kind |-> "url", url |-> url]

NoRemote == {[kind |-> "no_repository"], [kind |-> "no_origin"], [kind |-> "no_url"]}

Ambients ==
    NoRemote \cup
    {Remote(RemoteUrl(pre, dom, sep, o, r, suf)) :
        pre \in RemotePrefixes, dom \in RemoteDomains, sep \in {":", "/"},
        o \in RemoteOwners, r \in RemoteRepos, suf \in RemoteSuffixes}

GitHubRemote == Remote(RemoteUrl(<<"g", "i", "t", "@">>, S_github_com, ":",
                                 <<"o">>, <<"r">>, S_dot_git))

\* every token with a few hints and remotes, and every hint and every remote
\* with the tokens that can reach them
ResolverInputs ==
    (Tokens \X {None, Some(<<"o", "/", "r">>), Some(<<"x">>)} \X {GitHubRemote})
        \cup (NumStrs \X Hints \X {GitHubRemote, [kind |-> "no_origin"]})
        \cup (NumStrs \X {None} \X Ambients)

\* the command lines of the whole runs
RunInputs ==
    ({<<"7">>, <<"0">>, <<"o", "/", "r">>, OR_pull \o <<"7">>,
      PullUrl(<<"h">>, <<"o">>, <<"r">>, <<"7">>), <<"x">>}
        \X {None, Some(<<"o", "/", "r">>), Some(<<"x">>)}
        \X {GitHubRemote, [kind |-> "no_repository"]})

PullRequests == {[title |-> "Fix bug", html_url |-> "https://h/o/r/pull/7"],
                 [title |-> "", html_url |-> ""]}

CommentPool ==
    {[body |-> "LGTM", user |-> [login |-> "alice"], created_at |-> "t1",
      html_url |-> "c1", diff_hunk |-> "@@ -1 +1 @@", path |-> "src/lib.rs",
      line |-> Some(10)],
     [body |-> "nit", user |-> [login |-> "bob"], created_at |-> "t2",
      html_url |-> "c2", diff_hunk |-> "", path |-> "README.md",
      line |-> None]}

CommentLists == {<<>>} \cup SeqsUpTo(CommentPool, MaxComments)

FetchErrors == {"network", "status", "malformed_json"}

(***************************************************************************)
(* main                                                                    *)
(***************************************************************************)
NoPr == [title |-> "", html_url |-> ""]

InitWith(inputs) ==
    /\ \E i \in inputs :
          /\ pr_input = i[1]
          /\ repo_input = i[2]
          /\ ambient = i[3]
    /\ include_resolved \in BOOLEAN
    /\ pc = "parse_input"
    /\ result = Err("")
    /\ lookups = 0
    /\ requests = 0
    /\ pr = NoPr
    /\ comments = <<>>
    /\ todo = <<>>
    /\ stdout = <<>>
    /\ failure = ""

Init == InitWith(RunInputs)

InitResolver == InitWith(ResolverInputs)

\* line 66: parse_input(pr_input, repo_input).await?
ParseInput ==
    /\ pc = "parse_input"
    /\ LET r == parse_input(pr_input, repo_input, ambient)
       IN  /\ result' = r.res
           /\ lookups' = lookups + r.lookups
           /\ pc' = IF r.res.ok THEN "print_heading" ELSE "exit"
           /\ failure' = IF r.res.ok THEN "" ELSE r.res.err
    /\ UNCHANGED <<pr_input, repo_input, include_resolved, ambient, requests, pr,
                   comments, todo, stdout>>

\* line 69
PrintHeading ==
    /\ pc = "print_heading"
    /\ stdout' = Append(stdout, <<"# PR #", result.number, " - ", result.owner>>)
    /\ pc' = "fetch_pr"
    /\ UNCHANGED <<pr_input, repo_input, include_resolved, ambient, result, lookups,
                   requests, pr, comments, todo, failure>>

\* lines 72-83: one GET, then the body decoded as PullRequest; `?` returns on
\* an error of send() or of json()
FetchPr ==
    /\ pc = "fetch_pr"
    /\ requests' = requests + 1
    /\ \/ \E e \in FetchErrors :
            /\ failure' = e
            /\ pc' = "exit"
            /\ pr' = pr
       \/ \E p \in PullRequests :
            /\ pr' = p
            /\ pc' = "print_pr"
            /\ failure' = failure
    /\ UNCHANGED <<pr_input, repo_input, include_resolved, ambient, result, lookups,
                   comments, todo, stdout>>

\* lines 85-87
PrintPr ==
    /\ pc = "print_pr"
    /\ stdout' = stdout \o <<<<"**Title:** ", pr.title>>, <<"**URL:** ", pr.html_url>>,
                             <<>>>>
    /\ pc' = "fetch_comments"
    /\ UNCHANGED <<pr_input, repo_input, include_resolved, ambient, result, lookups,
                   requests, pr, comments, todo, failure>>

\* lines 90-101
FetchComments ==
    /\ pc = "fetch_comments"
    /\ requests' = requests + 1
    /\ \/ \E e \in FetchErrors :
            /\ failure' = e
            /\ pc' = "exit"
            /\ comments' = comments
       \/ \E cs \in CommentLists :
            /\ comments' = cs
            /\ pc' = "filter"
            /\ failure' = failure
    /\ UNCHANGED <<pr_input, repo_input, include_resolved, ambient, result, lookups,
                   pr, todo, stdout>>

HasLine(c) == c.line.some

\* filtered_comments leaving out, without the flag, the comments that have no
\* line (those of an outdated thread)
filtered_comments_outdated_dropped(cs, include) ==
    IF include THEN cs ELSE SelectSeq(cs, HasLine)

\* lines 104-110: both branches collect every comment
filtered_comments(cs, include) ==
    IF include THEN cs ELSE cs

\* lines 104-112
PrintCommentsHeading ==
    /\ pc = "filter"
    /\ todo' = filtered_comments(comments, include_resolved)
    /\ stdout' = stdout \o <<<<"## Comments">>, <<>>>>
    /\ pc' = "comments"
    /\ UNCHANGED <<pr_input, repo_input, include_resolved, ambient, result, lookups,
                   requests, pr, comments, failure>>

\* lines 115-134: what one iteration of the loop prints ("fence" is the
\* three backquotes; the backquotes around the path are left out)
comment_lines(c) ==
    <<<<"### Comment by @", c.user.login>>, <<"**File:** ", c.path>>>>
        \o (IF c.line.some THEN <<<<"**Line:** ", c.line.val>>>> ELSE <<>>)
        \o <<<<"**Created:** ", c.created_at>>, <<"**URL:** ", c.html_url>>, <<>>,
             <<"#### Diff Context">>, <<"fence", "diff">>, <<c.diff_hunk>>, <<"fence">>, <<>>,
             <<"#### Comment">>, <<c.body>>, <<>>, <<"---">>, <<>>>>

\* lines 114-135: one iteration
PrintComment ==
    /\ pc = "comments"
    /\ todo # <<>>
    /\ stdout' = stdout \o comment_lines(Head(todo))
    /\ todo' = Tail(todo)
    /\ UNCHANGED <<pc, pr_input, repo_input, include_resolved, ambient, result,
                   lookups, requests, pr, comments, failure>>

\* line 137: Ok(())
Finish ==
    /\ pc = "comments"
    /\ todo = <<>>
    /\ pc' = "exit"
    /\ UNCHANGED <<pr_input, repo_input, include_resolved, ambient, result, lookups,
                   requests, pr, comments, todo, stdout, failure>>

Next ==
    \/ ParseInput
    \/ PrintHeading
    \/ FetchPr
    \/ PrintPr
    \/ FetchComments
    \/ PrintCommentsHeading
    \/ PrintComment
    \/ Finish

Spec == Init /\ [][Next]_vars

\* the resolver alone, over all its inputs
ResolverSpec == InitResolver /\ [][ParseInput]_vars

(***************************************************************************)
(* Properties                                                              *)
(***************************************************************************)
\* parse_input has returned
Resolved == pc # "parse_input"

\* digits without their leading zeros: the integer a digit string denotes
RECURSIVE Canon(_)
Canon(s) == IF Len(s) > 0 /\ Head(s) = "0" THEN Canon(Tail(s)) ELSE s

\* the decimal digits of a u32 (none for 0)
RECURSIVE ToDecimal(_)
ToDecimal(v) ==
    IF v = <<0, 0>> THEN <<>>
    ELSE LET t == (v[1] % 10) * LimbBase + v[2]
         IN  Append(ToDecimal(<<v[1] \div 10, t \div 10>>), DigitSeq[(t % 10) + 1])

\* a <= b for digit strings of the same length
RECURSIVE LexLeq(_, _)
LexLeq(a, b) ==
    \/ Len(a) = 0
    \/ DigitVal(Head(a)) < DigitVal(Head(b))
    \/ Head(a) = Head(b) /\ LexLeq(Tail(a), Tail(b))

AllDigits(s) == Len(s) > 0 /\ \A i \in 1..Len(s) : s[i] \in Digit

\* digits denoting an integer of at most 2^32 - 1
FitsU32(s) ==
    /\ AllDigits(s)
    /\ \/ Len(Canon(s)) < 10
       \/ Len(Canon(s)) = 10 /\ LexLeq(Canon(s), S_max_u32)

\* an unsigned 32-bit integer as Rust reads one: digits after an optional '+'
Unsigned(s) == FitsU32(IF Len(s) > 0 /\ s[1] = "+" THEN Tail(s) ELSE s)

\* the digits of an Unsigned string
DigitsOf(s) == Canon(IF Len(s) > 0 /\ s[1] = "+" THEN Tail(s) ELSE s)

\* result is the Reference {owner, name, the integer written as digits}
IsReference(owner, name, digits) ==
    /\ result.ok
    /\ result.owner = owner
    /\ result.name = name
    /\ ToDecimal(result.number) = Canon(digits)

IsUrlToken == Url_parse(pr_input).ok

IsSlashToken == ~IsUrlToken /\ contains(pr_input, "/")

IsBareNumber == ~IsUrlToken /\ Unsigned(pr_input)

\* C1: every Reference the resolver returns has a non-empty owner and a
\* non-empty repository, neither containing '/', and a number other than 0.
C1_ReferenceWellFormed ==
    (Resolved /\ result.ok) =>
        /\ Len(result.owner) > 0
        /\ ~contains(result.owner, "/")
        /\ Len(result.name) > 0
        /\ ~contains(result.name, "/")
        /\ result.number # <<0, 0>>

\* the slash-path rule of the specification (section 4.1, item 2)
SlashRule(token) ==
    LET parts == split(token, "/")
    IN  IF Len(parts) = 2 THEN Err("MissingPrNumber")
        ELSE IF Len(parts) = 4 /\ parts[3] = S_pull
        THEN IF Unsigned(parts[4])
             THEN OkRef(parts[1], parts[2], parse_u32(parts[4]).val)
             ELSE Err("InvalidNumber")
        ELSE Err("UnrecognizedReferenceFormat")

\* C2: the first shape the token matches decides.  For a token that parses as
\* a URI the result is that of the URL rule; for any other token containing
\* '/' it is that of the slash-path rule; in both cases the git remote is not
\* read, and no failure comes from the repo hint or from the remote.
C2_FirstShapeDecides ==
    Resolved =>
        /\ IsUrlToken =>
              /\ result = parse_github_url(Url_parse(pr_input))
              /\ lookups = 0
        /\ IsSlashToken =>
              /\ result = SlashRule(pr_input)
              /\ lookups = 0
        /\ (IsUrlToken \/ IsSlashToken) /\ ~result.ok =>
              result.err \in {"InvalidPullRequestUrl", "InvalidNumber",
                              "MissingPrNumber", "UnrecognizedReferenceFormat"}

\* a URI whose in-shape failure stands although a valid hint and a usable
\* remote are at hand
C2_Witness ==
    /\ Resolved
    /\ IsUrlToken
    /\ contains(pr_input, "/")
    /\ result = Err("InvalidPullRequestUrl")
    /\ repo_input = Some(<<"o", "/", "r">>)
    /\ ambient = GitHubRemote

\* the token is PullUrl(host, owner, repo, n) for a host of Hosts, an owner and
\* a repo of Names and digits n of DigitStrs
IsPullUrl(token) ==
    LET parts == split(token, "/")
    IN  /\ Len(parts) = 7
        /\ parts[1] = S_https \o <<":">>
        /\ parts[2] = <<>>
        /\ parts[3] \in Hosts
        /\ parts[4] \in Names
        /\ parts[5] \in Names
        /\ parts[6] = S_pull
        /\ parts[7] \in DigitStrs

\* C3 as claimed: every URL https://<host>/{owner}/{repo}/pull/{n}, with any
\* non-empty owner and repo without '/' and any n written in digits, resolves
\* to the Reference {owner, repo, n}.
C3_AnyPullUrl ==
    (Resolved /\ IsPullUrl(pr_input)) =>
        LET parts == split(pr_input, "/")
        IN  IsReference(parts[4], parts[5], parts[7])

\* a name made of letters, digits, '-', '_' and '.', other than "." and ".."
PlainName(s) ==
    /\ Len(s) > 0
    /\ \A i \in 1..Len(s) : s[i] \in Lower \cup Digit \cup {"-", "_", "."}
    /\ s \notin {S_dot, S_dotdot}

\* C3 amended: a URL https://<host>/{owner}/{repo}/pull/{n} whose owner and
\* repo are plain names and whose n is at most 2^32 - 1 resolves to the
\* Reference {owner, repo, n}, whatever the repo hint and the git remote.
C3_PlainPullUrl ==
    (Resolved /\ IsPullUrl(pr_input)) =>
        LET parts == split(pr_input, "/")
        IN  (PlainName(parts[4]) /\ PlainName(parts[5]) /\ FitsU32(parts[7]))
                => IsReference(parts[4], parts[5], parts[7]) /\ lookups = 0

C3_Witness ==
    /\ Resolved
    /\ pr_input = PullUrl(<<"h", ".", "i", "o">>, <<"r", "-", "s">>, S_pull, S_max_u32)
    /\ repo_input = Some(<<"x">>)
    /\ result.ok
    /\ result.number = <<65535, 65535>>

\* the path is /{owner}/{repo}/pull/{number}, the number a segment of digits
\* (further segments may follow)
IsPullPath(path) ==
    LET segs == split(path, "/")
    IN  /\ Len(segs) >= 5
        /\ segs[1] = <<>>
        /\ Len(segs[2]) > 0
        /\ Len(segs[3]) > 0
        /\ segs[4] = S_pull
        /\ AllDigits(segs[5])

\* C4: a token that is a URI whose path is not /{owner}/{repo}/pull/{number}
\* fails with InvalidPullRequestUrl.
C4_OtherUrlPathFails ==
    (Resolved /\ IsUrlToken /\ ~IsPullPath(Url_parse(pr_input).path))
        => result = Err("InvalidPullRequestUrl")

IsOwnerRepo(s) ==
    LET parts == split(s, "/")
    IN  Len(parts) = 2 /\ Len(parts[1]) > 0 /\ Len(parts[2]) > 0

\* C6: for a bare number with a repo hint, a hint of the form owner/repo gives
\* the Reference {owner, repo, n}, and every other hint fails with
\* InvalidRepoHint.
C6_HintDecides ==
    (Resolved /\ IsBareNumber /\ repo_input.some) =>
        IF IsOwnerRepo(repo_input.val)
        THEN IsReference(split(repo_input.val, "/")[1], split(repo_input.val, "/")[2],
                         DigitsOf(pr_input))
        ELSE result = Err("InvalidRepoHint")

\* the repository segment with one trailing ".git" removed
WithoutDotGit(s) ==
    IF Len(s) > 4 /\ EndsWith(s, S_dot_git) THEN SubSeq(s, 1, Len(s) - 4) ELSE s

\* C7: for a bare number without a repo hint: a failed lookup fails with
\* NoRepositoryContext; a remote URL ending in github.com[:/]{owner}/{repo}
\* gives the Reference {owner, repo, n}, one trailing ".git" removed from the
\* repository; any other remote URL fails with UnsupportedRemoteHost.
C7_AmbientRemote ==
    (Resolved /\ IsBareNumber /\ ~repo_input.some) =>
        /\ ambient \in NoRemote => result = Err("NoRepositoryContext")
        /\ \A pre \in RemotePrefixes, dom \in RemoteDomains, sep \in {":", "/"},
              o \in RemoteOwners, r \in RemoteRepos, suf \in RemoteSuffixes :
              ambient = Remote(RemoteUrl(pre, dom, sep, o, r, suf)) =>
                  IF /\ dom = S_github_com
                     /\ Len(o) > 0
                     /\ Len(r \o suf) > 0
                     /\ ~contains(r \o suf, "/")
                  THEN IsReference(o, WithoutDotGit(r \o suf), DigitsOf(pr_input))
                  ELSE result = Err("UnsupportedRemoteHost")

C7_Witness ==
    /\ Resolved
    /\ pr_input = <<"0", "0", "7">>
    /\ ~repo_input.some
    /\ ambient = Remote(RemoteUrl(<<"g", "i", "t", "@">>, S_github_com, ":", <<"o">>,
                                  <<"r", ".", "g", "i", "t">>, S_dot_git))
    /\ result = OkRef(<<"o">>, <<"r", ".", "g", "i", "t">>, <<0, 7>>)

\* C8: the git remote is read at most once, and only for a bare number without
\* a repo hint; resolution sends no request and prints nothing.
C8_LookupOnlyForBareNumber ==
    /\ lookups <= 1
    /\ lookups = 1 => (IsBareNumber /\ ~contains(pr_input, "/") /\ ~repo_input.some)
    /\ pc \in {"parse_input", "print_heading"} => (requests = 0 /\ stdout = <<>>)
    /\ (pc = "exit" /\ failure \notin FetchErrors /\ ~result.ok)
          => (requests = 0 /\ stdout = <<>>)

C8_Witness ==
    /\ Resolved
    /\ lookups = 1
    /\ result = Err("UnsupportedRemoteHost")

\* C9: a run that ends in a fetch failure has printed nothing.
C9_NoOutputOnFetchFailure ==
    (pc = "exit" /\ failure \in FetchErrors) => stdout = <<>>

RECURSIVE Blocks(_)
Blocks(cs) == IF Len(cs) = 0 THEN <<>> ELSE comment_lines(Head(cs)) \o Blocks(Tail(cs))

\* C10: a successful run has printed, after the title and the metadata, one
\* block per comment the collaborator returned, in the order returned, and
\* nothing that depends on --include-resolved.
C10_CommentsInOrder ==
    (pc = "exit" /\ failure = "") =>
        stdout = <<<<"# PR #", result.number, " - ", result.owner>>,
                   <<"**Title:** ", pr.title>>, <<"**URL:** ", pr.html_url>>, <<>>,
                   <<"## Comments">>, <<>>>> \o Blocks(comments)

\* the same comment returned twice is printed twice, the flag not given
C10_Witness ==
    /\ pc = "exit"
    /\ failure = ""
    /\ ~include_resolved
    /\ Len(comments) = 2
    /\ comments[1] = comments[2]
    /\ ~comments[1].line.some
    /\ Len(stdout) = 6 + 2 * 15

====
